---- MODULE Spec2Model ----
(***************************************************************************)
(* Model of the XRP secrets backend (vault-plugin-xrp): account storage,   *)
(* the account policy function, the three sign handlers (payment,          *)
(* account-set, trust-line), account creation with test-net funding, and   *)
(* the ledger the handlers talk to.                                        *)
(*                                                                         *)
(* Strings the code parses (amounts, spend limits) are sequences of        *)
(* one-character strings, so that parsing is computed and not assumed.     *)
(* Key derivation is a library call; it is modelled as a deterministic     *)
(* injective function of the seed.                                         *)
(***************************************************************************)
EXTENDS Integers, Sequences, FiniteSets, TLC

\* ------------------------------------------------------------------ bounds
NumProcs == 2       \* request slots that can be in flight at the same time
MaxRequests == 3    \* requests started in one behaviour
MaxSeed == 2        \* distinct seeds rand.Reader can return
MaxSeq == 3         \* largest ledger sequence number reached

\* ------------------------------------------------------- program constants
FeeDrops == 10      \* data.NewNativeValue(int64(10))
KeySequence == 0    \* keySequence := uint32(0)

Procs == 1..NumProcs
Seeds == 1..MaxSeed
Names == {"a", "b"}

\* ------------------------------------------------------------- characters
Digits == {"0", "1", "2", "3", "4", "5", "6", "7", "8", "9"}

DigitVal(c) ==
  CASE c = "0" -> 0 [] c = "1" -> 1 [] c = "2" -> 2 [] c = "3" -> 3
    [] c = "4" -> 4 [] c = "5" -> 5 [] c = "6" -> 6 [] c = "7" -> 7
    [] c = "8" -> 8 [] c = "9" -> 9

DigitChar(n) ==
  CASE n = 0 -> "0" [] n = 1 -> "1" [] n = 2 -> "2" [] n = 3 -> "3"
    [] n = 4 -> "4" [] n = 5 -> "5" [] n = 6 -> "6" [] n = 7 -> "7"
    [] n = 8 -> "8" [] n = 9 -> "9"

AllDigits(s) == \A i \in 1..Len(s) : s[i] \in Digits

RECURSIVE DigitsValue(_)
DigitsValue(s) ==
  IF s = <<>> THEN 0
  ELSE 10 * DigitsValue(SubSeq(s, 1, Len(s) - 1)) + DigitVal(s[Len(s)])

RECURSIVE NatString(_)
\* big.Int.String() of a non-negative value
NatString(n) ==
  IF n < 10 THEN <<DigitChar(n)>>
  ELSE Append(NatString(n \div 10), DigitChar(n % 10))

\* ------------------------------------------------------------ utils.go
\* contains(stringSlice, searchString)
contains(stringSlice, searchString) ==
  \E i \in 1..Len(stringSlice) : stringSlice[i] = searchString

\* regexp.MatchString("([0-9])", input): some digit occurs anywhere
MatchesDigit(input) == \E i \in 1..Len(input) : input[i] \in Digits

\* math.ParseBig256 on a decimal string: big.Int.SetString(s, 10) takes an
\* optional sign followed by one or more digits and nothing else.
ParseBig256(s) ==
  LET signed == Len(s) > 0 /\ s[1] \in {"-", "+"}
      body == IF signed THEN SubSeq(s, 2, Len(s)) ELSE s
  IN  IF s = <<>> THEN [ok |-> TRUE, val |-> 0]
      ELSE IF body # <<>> /\ AllDigits(body)
        THEN [ok |-> TRUE,
              val |-> IF s[1] = "-" THEN 0 - DigitsValue(body) ELSE DigitsValue(body)]
        ELSE [ok |-> FALSE, val |-> 0]

Abs(n) == IF n < 0 THEN 0 - n ELSE n

\* validNumber(input): kind "int" is a *big.Int, "nil" the nil pointer,
\* "panic" the panic of math.MustParseBig256.
validNumber(input) ==
  IF input = <<>> THEN [kind |-> "int", val |-> 0]
  ELSE IF ~MatchesDigit(input) THEN [kind |-> "nil", val |-> 0]
  ELSE LET p == ParseBig256(input)
       IN  IF p.ok THEN [kind |-> "int", val |-> Abs(p.val)]
           ELSE [kind |-> "panic", val |-> 0]

\* ------------------------------------------------------------- identity
\* crypto.NewFamilySeed / NewECDSAKey / AccountPublicKey / AccountPrivateKey /
\* AccountId with key sequence 0: deterministic in the seed.
SecretOf(seed) == <<"secret", seed>>
PublicKeyOf(seed, keySeq) == <<"pub", seed, keySeq>>
PrivateKeyOf(seed, keySeq) == <<"priv", seed, keySeq>>
AccountIdOf(seed, keySeq) == <<"r", seed, keySeq>>

\* crypto.NewRippleHashCheck(secret, RIPPLE_FAMILY_SEED): the seed payload of
\* a well-formed secret, 0 (an error) for anything else.
SeedOfSecret(secret) ==
  IF Len(secret) = 2 /\ secret[1] = "secret" THEN secret[2] ELSE 0

\* A family seed that passes the version and checksum test of
\* NewRippleHashCheck but whose payload is not the 16 bytes NewECDSAKey asks for
ShortSecretOf(seed) == <<"secret", seed, "short">>

\* crypto.NewRippleHashCheck: ok iff version and checksum are right
NewRippleHashCheck(secret) ==
  IF Len(secret) \in {2, 3} /\ secret[1] = "secret"
  THEN [ok |-> TRUE, payload |-> [seed |-> secret[2], whole |-> Len(secret) = 2]]
  ELSE [ok |-> FALSE, payload |-> [seed |-> 0, whole |-> FALSE]]

\* crypto.NewECDSAKey(seed.Payload()): key 0 is the nil key it returns with
\* its error
NewECDSAKey(payload) ==
  IF payload.whole THEN [err |-> "", key |-> payload.seed]
  ELSE [err |-> "ECDSA seed should be 16 bytes", key |-> 0]

\* The test-net faucet hands out a new funded account on every call; the
\* model gives all of them one seed outside Seeds, and a ledger sequence that
\* is that of a new account whenever it is fetched.
FaucetSeed == MaxSeed + 1

Addresses == {AccountIdOf(s, KeySequence) : s \in Seeds}

\* type Account struct; NoAccount is the zero value / the nil pointer
NoAccount ==
  [account_id |-> <<>>, public_key |-> <<>>, private_key |-> <<>>,
   secret |-> <<>>, tx_spend_limit |-> <<>>, whitelist |-> <<>>,
   blacklist |-> <<>>]

\* data.NewAccountFromAddress: an address parses iff it is a derived account id
ValidAddress(a) == Len(a) = 3 /\ a[1] = "r"

\* ------------------------------------------------------------ policy
\* validAccountConstraints(account, amount, toAddress); amount is a *big.Int
\* as validNumber returns it. "panic" is the panic of validNumber or of
\* Cmp on a nil *big.Int.
validAccountConstraints(account, amount, toAddress) ==
  LET txLimit == validNumber(account.tx_spend_limit)
  IN  IF txLimit.kind # "int" \/ amount.kind # "int" THEN "panic"
      ELSE IF txLimit.val < amount.val /\ txLimit.val > 0 THEN "deny_limit"
      ELSE IF contains(account.blacklist, toAddress) THEN "deny_blacklist"
      ELSE IF Len(account.whitelist) > 0 /\ ~contains(account.whitelist, toAddress)
        THEN "deny_whitelist"
      ELSE "allow"

\* ------------------------------------------------------- transactions
\* data.Payment / data.AccountSet / data.TrustSet with their TxBase. A field
\* the code leaves unset holds <<>>; sequence 0 is the unassigned zero value.
NoTx ==
  [type |-> "none", account |-> <<>>, destination |-> <<>>, amount |-> <<>>,
   fee |-> 0, sequence |-> 0, extra |-> <<>>, signingPubKey |-> <<>>,
   txnSignature |-> <<>>, hash |-> <<>>]

\* strings.EqualFold(assetCode, "native")
IsNative(assetCode) == assetCode \in {"native", "NATIVE", "Native"}

\* data.NewAmount(value + "/" + currency [+ "/" + issuer]): the value must be
\* a decimal number, the currency a three-letter code, the issuer an address.
NewAmount(value, currency, issuer) ==
  IF value.kind = "int" /\ currency \in {"XRP", "USD", "SRC"}
     /\ (currency = "XRP" \/ ValidAddress(issuer))
  THEN [ok |-> TRUE, amount |-> <<value.val, currency, issuer>>]
  ELSE [ok |-> FALSE, amount |-> <<>>]

\* A createPaymentTransaction that takes the fee from the amount
createPaymentTransaction_feeFromAmount(sourceAddress, destinationAddress, amount, assetCode, assetIssuer) ==
  LET amountObj == IF IsNative(assetCode) THEN NewAmount(amount, "XRP", <<>>)
                   ELSE NewAmount(amount, assetCode, assetIssuer)
  IN  IF ~ValidAddress(sourceAddress) \/ ~ValidAddress(destinationAddress)
        THEN [err |-> "invalid address", tx |-> NoTx]
      ELSE IF ~amountObj.ok
        THEN [err |-> IF IsNative(assetCode) THEN "invalid amount"
                      ELSE "invalid currency code or issuer",
              tx |-> NoTx]
      ELSE [err |-> "",
            tx |-> [NoTx EXCEPT !.type = "Payment", !.account = sourceAddress,
                                !.destination = destinationAddress,
                                !.amount = amountObj.amount, !.fee = amount.val]]

\* createPaymentTransaction(sourceAddress, destinationAddress, amount, assetCode,
\* assetIssuer); amount is the *big.Int whose String() the caller passes.
\* err "address" / "amount" are library errors, "currency" the coded 400.
createPaymentTransaction(sourceAddress, destinationAddress, amount, assetCode, assetIssuer) ==
  LET amountObj == IF IsNative(assetCode) THEN NewAmount(amount, "XRP", <<>>)
                   ELSE NewAmount(amount, assetCode, assetIssuer)
  IN  IF ~ValidAddress(sourceAddress) \/ ~ValidAddress(destinationAddress)
        THEN [err |-> "invalid address", tx |-> NoTx]
      ELSE IF ~amountObj.ok
        THEN [err |-> IF IsNative(assetCode) THEN "invalid amount"
                      ELSE "invalid currency code or issuer",
              tx |-> NoTx]
      ELSE [err |-> "",
            tx |-> [NoTx EXCEPT !.type = "Payment", !.account = sourceAddress,
                                !.destination = destinationAddress,
                                !.amount = amountObj.amount, !.fee = FeeDrops]]

\* The fields a signature covers: every set field but the signature itself.
SigningFields(tx) ==
  <<tx.type, tx.sequence, tx.amount, tx.fee, tx.signingPubKey, tx.extra,
    tx.account, tx.destination>>

\* data.Raw: the canonical encoding, fields in protocol order, unset fields
\* left out.
Raw(tx) ==
  LET opt(name, v) == IF v = <<>> THEN <<>> ELSE << <<name, v>> >>
  IN  << <<"TransactionType", tx.type>>, <<"Sequence", tx.sequence>> >>
      \o opt("Amount", tx.amount)
      \o << <<"Fee", tx.fee>> >>
      \o opt("SigningPubKey", tx.signingPubKey)
      \o opt("TxnSignature", tx.txnSignature)
      \o opt("Extra", tx.extra)
      \o opt("Account", tx.account)
      \o opt("Destination", tx.destination)

\* data.Sign(tx, key, &keySequence): sets SigningPubKey, signs the signing
\* hash with the private key, and recomputes the transaction hash.
Sign(tx, seed, keySeq) ==
  LET withKey == [tx EXCEPT !.signingPubKey = PublicKeyOf(seed, keySeq)]
      signed == [withKey EXCEPT
                   !.txnSignature = <<"sig", PrivateKeyOf(seed, keySeq),
                                      SigningFields(withKey)>>]
  IN  [signed EXCEPT !.hash = <<"hash", Raw(signed)>>]

\* fmt.Sprintf("%X", txRaw) and hex.DecodeString
HexUpper(raw) == <<"HEX", raw>>
HexDecode(hex) == IF Len(hex) = 2 /\ hex[1] = "HEX" THEN hex[2] ELSE <<>>

\* data.ReadTransaction: the value of a field of the encoding, <<>> if absent
FieldOf(raw, name) ==
  IF \E i \in 1..Len(raw) : raw[i][1] = name
  THEN raw[CHOOSE i \in 1..Len(raw) : raw[i][1] = name][2]
  ELSE <<>>

ReadTransaction(raw) ==
  [ok |-> /\ \A n \in {"TransactionType", "Fee", "Sequence", "Account",
                       "SigningPubKey", "TxnSignature"} :
               \E i \in 1..Len(raw) : raw[i][1] = n,
   tx |-> [type |-> FieldOf(raw, "TransactionType"),
           account |-> FieldOf(raw, "Account"),
           destination |-> FieldOf(raw, "Destination"),
           amount |-> FieldOf(raw, "Amount"),
           fee |-> FieldOf(raw, "Fee"),
           sequence |-> FieldOf(raw, "Sequence"),
           extra |-> FieldOf(raw, "Extra"),
           signingPubKey |-> FieldOf(raw, "SigningPubKey"),
           txnSignature |-> FieldOf(raw, "TxnSignature"),
           hash |-> <<"hash", raw>>]]

\* ---------------------------------------------------------------- state
VARIABLES
  storage,     \* req.Storage: account name -> the Account its entry decodes to
               \* (NoAccount: no entry)
  ledger,      \* the network: address -> next expected sequence (0: not funded)
  pc,          \* slot -> position of the request it runs
  req,         \* slot -> the request's local variables and its response
  nreq,        \* requests started so far
  alive,       \* FALSE once the plugin process has died (panic, log.Fatal)
  log,         \* the account data written to the process log (lines that carry only
               \* a request path or an error text are left out)
  returned,    \* address -> the sequence the latest sign response carried (0: none yet)
  lastSubmit,  \* the latest submission of a signed transaction to the ledger
  pol          \* inputs and result of a direct call of validAccountConstraints

vars == <<storage, ledger, pc, req, nreq, alive, log, returned, lastSubmit, pol>>

NoResp == [status |-> "none", err |-> "", data |-> <<>>]

NoReq ==
  [kind |-> "none", name |-> "", unknownField |-> FALSE, dest |-> "", amountStr |-> <<>>,
   amount |-> [kind |-> "int", val |-> 0],
   assetCode |-> "", assetIssuer |-> <<>>, acct |-> NoAccount, newAcct |-> NoAccount,
   tx |-> NoTx, key |-> 0, fetched |-> 0, resp |-> NoResp]

NoSubmit == [account |-> <<>>, sequence |-> 0, expected |-> 0]

NoPol == [account |-> NoAccount, amount |-> 0, to |-> <<>>, result |-> "none"]

\* A (nil, err) return of a handler
ErrResp(msg) == [status |-> "error", err |-> msg, data |-> <<>>]
\* logical.ErrorResponse(msg), nil
UserErrResp(msg) == [status |-> "error_response", err |-> msg, data |-> <<>>]

Init ==
  /\ storage = [n \in Names |-> NoAccount]
  /\ ledger = [a \in Addresses |-> 0]
  /\ pc = [p \in Procs |-> "idle"]
  /\ req = [p \in Procs |-> NoReq]
  /\ nreq = 0
  /\ alive = TRUE
  /\ log = {}
  /\ returned = [a \in Addresses |-> 0]
  /\ lastSubmit = NoSubmit
  /\ pol = NoPol

\* What is left of a request once its handler has returned: its path and
\* fields, the response, the key it derived (nothing clears it), and with a
\* successful response the values it was computed from
Returned(r, resp) ==
  IF resp.status = "ok" THEN [r EXCEPT !.resp = resp]
  ELSE [NoReq EXCEPT !.kind = r.kind, !.name = r.name, !.unknownField = r.unknownField,
                     !.dest = r.dest, !.amountStr = r.amountStr,
                     !.assetCode = r.assetCode, !.assetIssuer = r.assetIssuer,
                     !.key = r.key, !.resp = resp]

\* A request ends with a response
Finish(p, r, resp) ==
  /\ pc' = [pc EXCEPT ![p] = "done"]
  /\ req' = [req EXCEPT ![p] = Returned(r, resp)]

\* A request ends in a panic nothing recovers: the plugin process dies
Panic(p, r) ==
  /\ pc' = [pc EXCEPT ![p] = "panicked"]
  /\ req' = [req EXCEPT ![p] = Returned(r, [NoResp EXCEPT !.status = "panic"])]
  /\ alive' = FALSE

\* A new request runs in the lowest free slot
CanStart(p) ==
  /\ alive /\ pc[p] = "idle" /\ nreq < MaxRequests
  /\ \A q \in Procs : q < p => pc[q] # "idle"

\* readVaultAccount(ctx, req, path): Get fails, or there is no entry, or the
\* entry decodes to the account
readVaultAccount(name, storageOk) ==
  IF ~storageOk THEN [err |-> "failed to read account", account |-> NoAccount]
  ELSE IF name \notin Names THEN [err |-> "", account |-> NoAccount]
  ELSE [err |-> "", account |-> storage[name]]

\* ------------------------------------------------------- request inputs
\* The payment requests a caller sends: native payments between the account
\* names, and requests that differ from a well-formed one in one field
PaymentInputs ==
  LET native == [unknownField |-> FALSE, source |-> "a", destination |-> "a",
                 amountStr |-> <<"1", "0", "0", "0">>, assetCode |-> "native",
                 assetIssuer |-> <<>>]
  IN  { [native EXCEPT !.source = s, !.destination = d, !.amountStr = a] :
          s \in Names, d \in Names,
          a \in { <<"1", "0", "0", "0">>, <<"1", "0", "0", "1">>, <<"-", "5">> } }
      \cup { [native EXCEPT !.unknownField = TRUE],
             [native EXCEPT !.source = ""],
             [native EXCEPT !.destination = ""],
             [native EXCEPT !.amountStr = <<>>],
             [native EXCEPT !.amountStr = <<"x">>],
             [native EXCEPT !.amountStr = <<"1", "x">>],
             [native EXCEPT !.assetCode = ""],
             [native EXCEPT !.assetCode = "USD"],
             [native EXCEPT !.assetCode = "USD", !.assetIssuer = <<"x">>] }

\* ------------------------------------------------------- sign functions
\* signPaymentTransaction / signAccountSetTransaction /
\* signTrustSetTransaction up to the connection to the network: the seed is
\* decoded from the secret, the key derived, the account id parsed.
\* The error of NewECDSAKey is overwritten by that of NewAccountFromAddress
\* before anything reads it, so that a nil key goes on.
SignEnter(account) ==
  LET seed == NewRippleHashCheck(account.secret)
      derived == NewECDSAKey(seed.payload)
  IN  IF ~seed.ok THEN [err |-> "invalid secret", key |-> 0]
      ELSE IF ~ValidAddress(account.account_id) THEN [err |-> "invalid address", key |-> 0]
      ELSE [err |-> "", key |-> derived.key]

\* websockets.NewRemote(...)
SignConnect(p) ==
  /\ alive /\ pc[p] = "connect"
  /\ \E netOk \in BOOLEAN :
       IF netOk
       THEN /\ pc' = [pc EXCEPT ![p] = "fetch"]
            /\ UNCHANGED req
       ELSE Finish(p, req[p], ErrResp("network unavailable"))
  /\ UNCHANGED <<storage, ledger, nreq, alive, log, returned, lastSubmit, pol>>

\* The sequence the ledger reports for an address (0: no such account)
LedgerSequence(address) ==
  IF address \in Addresses THEN ledger[address]
  ELSE IF address = AccountIdOf(FaucetSeed, KeySequence) THEN 1
  ELSE 0

\* An assignment that takes the sequence after the fetched one
AssignSequence_incremented(tx, sequence) == [tx EXCEPT !.sequence = sequence + 1]

\* remote.AccountInfo(*rippleAccount); base.Sequence = *sequence
AssignSequence(tx, sequence) == [tx EXCEPT !.sequence = sequence]

\* A fetch that goes on to sign, with the zero sequence, when AccountInfo fails
SignFetch_ignoresError(p) ==
  /\ alive /\ pc[p] = "fetch"
  /\ \E netOk \in BOOLEAN :
       LET sequence == LedgerSequence(req[p].acct.account_id)
           got == IF netOk THEN sequence ELSE 0
       IN  /\ pc' = [pc EXCEPT ![p] = "sign"]
           /\ req' = [req EXCEPT ![p].fetched = got,
                                 ![p].tx = AssignSequence(req[p].tx, got)]
  /\ UNCHANGED <<storage, ledger, nreq, alive, log, returned, lastSubmit, pol>>

SignFetch(p) ==
  /\ alive /\ pc[p] = "fetch"
  /\ \E netOk \in BOOLEAN :
       LET sequence == LedgerSequence(req[p].acct.account_id)
       IN  IF netOk /\ sequence # 0
           THEN /\ pc' = [pc EXCEPT ![p] = "sign"]
                /\ req' = [req EXCEPT ![p].fetched = sequence,
                                      ![p].tx = AssignSequence(req[p].tx, sequence)]
           ELSE Finish(p, req[p], ErrResp("account info failed"))
  /\ UNCHANGED <<storage, ledger, nreq, alive, log, returned, lastSubmit, pol>>

\* data.Sign(tx, key, &keySequence) and the return to the handler. With the
\* nil key, key.Public dereferences nil: the request panics.
SignSign(p) ==
  /\ alive /\ pc[p] = "sign"
  /\ IF req[p].key = 0
     THEN Panic(p, req[p])
     ELSE /\ req' = [req EXCEPT ![p].tx = Sign(req[p].tx, req[p].key, KeySequence)]
          /\ pc' = [pc EXCEPT ![p] = IF req[p].kind = "create" THEN "fund_connect"
                                     ELSE "encode"]
          /\ UNCHANGED alive
  /\ UNCHANGED <<storage, ledger, nreq, log, returned, lastSubmit, pol>>

\* The response of a sign handler: data.Raw and the response map
SignResponse(signedTx) ==
  [status |-> "ok", err |-> "",
   data |-> [source_address |-> signedTx.account,
             account_sequence |-> signedTx.sequence,
             fee |-> NatString(signedTx.fee),
             transaction_hash |-> signedTx.hash,
             signed_transaction |-> HexUpper(Raw(signedTx))]]

\* An Encode that also submits the transaction it returns
Encode_andSubmit(p) ==
  /\ alive /\ pc[p] = "encode"
  /\ Finish(p, req[p], SignResponse(req[p].tx))
  /\ returned' = [returned EXCEPT ![req[p].tx.account] = req[p].tx.sequence]
  /\ ledger' = IF ledger[req[p].tx.account] = req[p].tx.sequence
                  /\ req[p].tx.sequence < MaxSeq
               THEN [ledger EXCEPT ![req[p].tx.account] = req[p].tx.sequence + 1]
               ELSE ledger
  /\ UNCHANGED <<storage, nreq, alive, log, lastSubmit, pol>>

Encode(p) ==
  /\ alive /\ pc[p] = "encode"
  /\ Finish(p, req[p], SignResponse(req[p].tx))
  /\ returned' = [returned EXCEPT ![req[p].tx.account] = req[p].tx.sequence]
  /\ UNCHANGED <<storage, ledger, nreq, alive, log, lastSubmit, pol>>

\* ------------------------------------------------------------ payments
\* createPayment, from the request to the read of the source account
PaymentStart(p) ==
  /\ CanStart(p)
  /\ nreq' = nreq + 1
  /\ \E in \in PaymentInputs, storageOk \in BOOLEAN :
       LET unknownField == in.unknownField
           source == in.source
           destination == in.destination
           amountStr == in.amountStr
           asset == [code |-> in.assetCode, issuer |-> in.assetIssuer]
           amount == validNumber(amountStr)
           r == [NoReq EXCEPT !.kind = "payment", !.name = source,
                              !.unknownField = unknownField, !.dest = destination,
                              !.amountStr = amountStr, !.amount = amount,
                              !.assetCode = asset.code, !.assetIssuer = asset.issuer]
           src == readVaultAccount(source, storageOk)
           early ==
             IF unknownField THEN ErrResp("unknown fields")
             ELSE IF source = "" THEN UserErrResp("Missing required field 'source'")
             ELSE IF destination = "" THEN UserErrResp("Missing required field 'destination'")
             ELSE IF amountStr = <<>> THEN UserErrResp("Missing required field 'amount'")
             ELSE NoResp
           late ==
             IF asset.code = "" THEN UserErrResp("Missing required field 'assetCode'")
             ELSE IF asset.issuer = <<>> /\ ~IsNative(asset.code)
               THEN UserErrResp("Missing required field 'assetIssuer'")
             ELSE NoResp
       IN  IF early.status # "none"
             THEN Finish(p, r, early) /\ UNCHANGED <<alive, log>>
           ELSE IF amount.kind = "panic"
             THEN Panic(p, r) /\ UNCHANGED log
           ELSE IF late.status # "none"
             THEN Finish(p, r, late) /\ UNCHANGED <<alive, log>>
           ELSE /\ UNCHANGED <<alive, log>>
                /\ IF src.err # "" THEN Finish(p, r, ErrResp(src.err))
                   ELSE IF src.account = NoAccount
                     THEN Finish(p, r, ErrResp("source account not found"))
                   ELSE /\ pc' = [pc EXCEPT ![p] = "pay_dest"]
                        /\ req' = [req EXCEPT ![p] = [r EXCEPT !.acct = src.account]]
  /\ UNCHANGED <<storage, ledger, returned, lastSubmit, pol>>

\* A createPayment that asks validAccountConstraints before it builds
createPayment_enforced(r, destinationAccount) ==
  LET payment == createPaymentTransaction(r.acct.account_id, destinationAccount.account_id,
                                          r.amount, r.assetCode, r.assetIssuer)
      enter == SignEnter(r.acct)
      verdict == validAccountConstraints(r.acct, r.amount, destinationAccount.account_id)
  IN  IF verdict # "allow" THEN [err |-> "policy violation", tx |-> NoTx, key |-> 0]
      ELSE IF payment.err # "" THEN [err |-> payment.err, tx |-> NoTx, key |-> 0]
      ELSE IF enter.err # "" THEN [err |-> enter.err, tx |-> NoTx, key |-> 0]
      ELSE [err |-> "", tx |-> payment.tx, key |-> enter.key]

\* A createPayment that signs the payment where it builds it
createPayment_presigned(r, destinationAccount) ==
  LET payment == createPaymentTransaction(r.acct.account_id, destinationAccount.account_id,
                                          r.amount, r.assetCode, r.assetIssuer)
      enter == SignEnter(r.acct)
  IN  IF payment.err # "" THEN [err |-> payment.err, tx |-> NoTx, key |-> 0]
      ELSE IF enter.err # "" THEN [err |-> enter.err, tx |-> NoTx, key |-> 0]
      ELSE [err |-> "", tx |-> Sign(payment.tx, enter.key, KeySequence), key |-> enter.key]

\* createPayment, from the read of the destination account to the call of
\* signPaymentTransaction
createPayment(r, destinationAccount) ==
  LET payment == createPaymentTransaction(r.acct.account_id, destinationAccount.account_id,
                                          r.amount, r.assetCode, r.assetIssuer)
      enter == SignEnter(r.acct)
  IN  IF payment.err # "" THEN [err |-> payment.err, tx |-> NoTx, key |-> 0]
      ELSE IF enter.err # "" THEN [err |-> enter.err, tx |-> NoTx, key |-> 0]
      ELSE [err |-> "", tx |-> payment.tx, key |-> enter.key]

\* A createPayment that builds the payment without looking whether the
\* destination account was found
PaymentReadDest_withoutNilCheck(p) ==
  /\ alive /\ pc[p] = "pay_dest"
  /\ \E storageOk \in BOOLEAN :
       LET dst == readVaultAccount(req[p].dest, storageOk)
           built == createPayment(req[p], dst.account)
       IN  IF dst.err # "" THEN Finish(p, req[p], ErrResp(dst.err))
           ELSE IF built.err # "" THEN Finish(p, req[p], ErrResp(built.err))
           ELSE /\ pc' = [pc EXCEPT ![p] = "connect"]
                /\ req' = [req EXCEPT ![p].tx = built.tx, ![p].key = built.key]
  /\ UNCHANGED <<storage, ledger, nreq, alive, log, returned, lastSubmit, pol>>

PaymentReadDest(p) ==
  /\ alive /\ pc[p] = "pay_dest"
  /\ \E storageOk \in BOOLEAN :
       LET dst == readVaultAccount(req[p].dest, storageOk)
           built == createPayment(req[p], dst.account)
       IN  IF dst.err # "" THEN Finish(p, req[p], ErrResp(dst.err))
           ELSE IF dst.account = NoAccount
             THEN Finish(p, req[p], ErrResp("destination account not found"))
           ELSE IF built.err # "" THEN Finish(p, req[p], ErrResp(built.err))
           ELSE /\ pc' = [pc EXCEPT ![p] = "connect"]
                /\ req' = [req EXCEPT ![p].tx = built.tx, ![p].key = built.key]
  /\ UNCHANGED <<storage, ledger, nreq, alive, log, returned, lastSubmit, pol>>

\* ------------------------------------------------- account-set, trust-line
\* strconv.ParseUint(s, 10, 32), for strings of at most nine characters (all
\* of which are below 2^32)
ParseUint32(s) ==
  IF s # <<>> /\ AllDigits(s) /\ Len(s) < 10
  THEN [ok |-> TRUE, val |-> DigitsValue(s)]
  ELSE [ok |-> FALSE, val |-> 0]

\* setFlag, clearFlag and domain of an account-set request
AccountSetInputs ==
  { [setFlag |-> <<>>, clearFlag |-> <<>>, domain |-> ""],
    [setFlag |-> <<"8">>, clearFlag |-> <<>>, domain |-> "chainfront.io"],
    [setFlag |-> <<"x">>, clearFlag |-> <<>>, domain |-> ""],
    [setFlag |-> <<>>, clearFlag |-> <<"x">>, domain |-> ""] }

\* pathAccountSet
pathAccountSet(name, setFlagStr, clearFlagStr, domainStr, storageOk) ==
  LET src == readVaultAccount(name, storageOk)
      r == [NoReq EXCEPT !.kind = "accountset", !.name = name, !.acct = src.account]
      setFlag == ParseUint32(setFlagStr)
      clearFlag == ParseUint32(clearFlagStr)
      tx == [NoTx EXCEPT !.type = "AccountSet", !.fee = FeeDrops,
                         !.account = src.account.account_id,
                         !.extra = <<IF setFlagStr # <<>> THEN <<setFlag.val>> ELSE <<>>,
                                     IF clearFlagStr # <<>> THEN <<clearFlag.val>> ELSE <<>>,
                                     domainStr>>]
      enter == SignEnter(src.account)
  IN  IF src.err # "" THEN [r EXCEPT !.resp = ErrResp(src.err)]
      ELSE IF src.account = NoAccount THEN [r EXCEPT !.resp = ErrResp("source account not found")]
      ELSE IF ~ValidAddress(src.account.account_id) THEN [r EXCEPT !.resp = ErrResp("invalid address")]
      ELSE IF setFlagStr # <<>> /\ ~setFlag.ok
        THEN [r EXCEPT !.resp = ErrResp("set_flag is not a valid number")]
      ELSE IF clearFlagStr # <<>> /\ ~clearFlag.ok
        THEN [r EXCEPT !.resp = ErrResp("clear_flag is not a valid number")]
      ELSE IF enter.err # "" THEN [r EXCEPT !.resp = ErrResp(enter.err)]
      ELSE [r EXCEPT !.tx = tx, !.key = enter.key]

AccountSetStart(p) ==
  /\ CanStart(p)
  /\ nreq' = nreq + 1
  /\ \E name \in Names, in \in AccountSetInputs, storageOk \in BOOLEAN :
       LET r == pathAccountSet(name, in.setFlag, in.clearFlag, in.domain, storageOk)
       IN  IF r.resp.status = "none"
           THEN /\ req' = [req EXCEPT ![p] = r]
                /\ pc' = [pc EXCEPT ![p] = "connect"]
           ELSE Finish(p, r, r.resp)
  /\ UNCHANGED <<storage, ledger, alive, log, returned, lastSubmit, pol>>

\* The value part of a compound amount: a decimal number
ParseValue(s) ==
  IF s # <<>> /\ AllDigits(s) THEN [kind |-> "int", val |-> DigitsValue(s)]
  ELSE [kind |-> "nil", val |-> 0]

\* currencyCode, issuer and limit of a trust-line request
TrustlineInputs ==
  LET million == <<"1", "0", "0", "0", "0", "0", "0">>
      issuer == AccountIdOf(1, KeySequence)
  IN  { [currencyCode |-> "SRC", issuer |-> issuer, limit |-> million],
        [currencyCode |-> "", issuer |-> issuer, limit |-> million],
        [currencyCode |-> "SRC", issuer |-> <<>>, limit |-> million],
        [currencyCode |-> "SRC", issuer |-> issuer, limit |-> <<>>],
        [currencyCode |-> "SRC", issuer |-> <<"x">>, limit |-> million],
        [currencyCode |-> "toolong", issuer |-> issuer, limit |-> million],
        [currencyCode |-> "SRC", issuer |-> issuer, limit |-> <<"x">>] }

\* A pathCreateTrustline that does not look whether the issuer is empty
pathCreateTrustline_withoutIssuerCheck(name, currencyCode, issuer, limit, storageOk) ==
  LET src == readVaultAccount(name, storageOk)
      r == [NoReq EXCEPT !.kind = "trustline", !.name = name,
                         !.assetCode = currencyCode, !.assetIssuer = issuer]
      limitAmount == NewAmount(ParseValue(limit), currencyCode, issuer)
      tx == [NoTx EXCEPT !.type = "TrustSet", !.fee = FeeDrops,
                         !.account = src.account.account_id,
                         !.extra = limitAmount.amount]
      enter == SignEnter(src.account)
  IN  IF currencyCode = "" THEN [read |-> FALSE, r |-> [r EXCEPT !.resp = UserErrResp("Missing required field 'currencyCode'")]]
      ELSE IF limit = <<>> THEN [read |-> FALSE, r |-> [r EXCEPT !.resp = UserErrResp("Missing required field 'limit'")]]
      ELSE [read |-> TRUE,
            r |-> IF src.err # "" THEN [r EXCEPT !.resp = ErrResp(src.err)]
                  ELSE IF src.account = NoAccount
                    THEN [r EXCEPT !.resp = ErrResp("source account not found")]
                  ELSE IF ~ValidAddress(src.account.account_id)
                    THEN [r EXCEPT !.resp = ErrResp("invalid address")]
                  ELSE IF ~limitAmount.ok THEN [r EXCEPT !.resp = ErrResp("invalid currency")]
                  ELSE IF enter.err # "" THEN [r EXCEPT !.resp = ErrResp(enter.err)]
                  ELSE [r EXCEPT !.acct = src.account, !.tx = tx, !.key = enter.key]]

\* pathCreateTrustline; read is TRUE iff the handler got as far as reading
\* the account from storage. The request keeps currencyCode and issuer in
\* assetCode and assetIssuer.
pathCreateTrustline(name, currencyCode, issuer, limit, storageOk) ==
  LET src == readVaultAccount(name, storageOk)
      r == [NoReq EXCEPT !.kind = "trustline", !.name = name,
                         !.assetCode = currencyCode, !.assetIssuer = issuer]
      limitAmount == NewAmount(ParseValue(limit), currencyCode, issuer)
      tx == [NoTx EXCEPT !.type = "TrustSet", !.fee = FeeDrops,
                         !.account = src.account.account_id,
                         !.extra = limitAmount.amount]
      enter == SignEnter(src.account)
  IN  IF currencyCode = "" THEN [read |-> FALSE, r |-> [r EXCEPT !.resp = UserErrResp("Missing required field 'currencyCode'")]]
      ELSE IF issuer = <<>> THEN [read |-> FALSE, r |-> [r EXCEPT !.resp = UserErrResp("Missing required field 'issuer'")]]
      ELSE IF limit = <<>> THEN [read |-> FALSE, r |-> [r EXCEPT !.resp = UserErrResp("Missing required field 'limit'")]]
      ELSE [read |-> TRUE,
            r |-> IF src.err # "" THEN [r EXCEPT !.resp = ErrResp(src.err)]
                  ELSE IF src.account = NoAccount
                    THEN [r EXCEPT !.resp = ErrResp("source account not found")]
                  ELSE IF ~ValidAddress(src.account.account_id)
                    THEN [r EXCEPT !.resp = ErrResp("invalid address")]
                  ELSE IF ~limitAmount.ok THEN [r EXCEPT !.resp = ErrResp("invalid currency")]
                  ELSE IF enter.err # "" THEN [r EXCEPT !.resp = ErrResp(enter.err)]
                  ELSE [r EXCEPT !.acct = src.account, !.tx = tx, !.key = enter.key]]

TrustlineStart(p) ==
  /\ CanStart(p)
  /\ nreq' = nreq + 1
  /\ \E name \in Names, in \in TrustlineInputs, storageOk \in BOOLEAN :
       LET h == pathCreateTrustline(name, in.currencyCode, in.issuer, in.limit, storageOk)
       IN  IF h.r.resp.status = "none"
           THEN /\ req' = [req EXCEPT ![p] = h.r]
                /\ pc' = [pc EXCEPT ![p] = "connect"]
           ELSE Finish(p, h.r, h.r.resp)
  /\ UNCHANGED <<storage, ledger, alive, log, returned, lastSubmit, pol>>

\* ------------------------------------------------------------ accounts
\* decimal.NewFromString: an optional sign, digits, at most one point with
\* digits around it. frac keeps the fraction digits without trailing zeros.
RECURSIVE TrimZeros(_)
TrimZeros(s) ==
  IF s # <<>> /\ s[Len(s)] = "0" THEN TrimZeros(SubSeq(s, 1, Len(s) - 1)) ELSE s

PointAt(s) == IF \E i \in 1..Len(s) : s[i] = "." THEN CHOOSE i \in 1..Len(s) : s[i] = "." ELSE 0

NewFromString(str) ==
  LET signed == Len(str) > 0 /\ str[1] \in {"-", "+"}
      body == IF signed THEN SubSeq(str, 2, Len(str)) ELSE str
      dot == PointAt(body)
      int == IF dot = 0 THEN body ELSE SubSeq(body, 1, dot - 1)
      frac == IF dot = 0 THEN <<>> ELSE SubSeq(body, dot + 1, Len(body))
  IN  IF body = <<>> \/ ~AllDigits(int) \/ ~AllDigits(frac) \/ (int = <<>> /\ frac = <<>>)
      THEN [ok |-> FALSE, neg |-> FALSE, int |-> 0, frac |-> <<>>]
      ELSE [ok |-> TRUE, neg |-> signed /\ str[1] = "-", int |-> DigitsValue(int),
            frac |-> TrimZeros(frac)]

\* decimal.Decimal.IsNegative
IsNegative(d) == d.neg /\ (d.int # 0 \/ d.frac # <<>>)

\* decimal.Decimal.String
DecimalString(d) ==
  (IF IsNegative(d) THEN <<"-">> ELSE <<>>) \o NatString(d.int)
  \o (IF d.frac = <<>> THEN <<>> ELSE <<".">> \o d.frac)

\* tx_spend_limit, whitelist and blacklist of a create request
CreateInputs ==
  { [limit |-> <<"1", "0", "0", "0">>, whitelist |-> <<>>, blacklist |-> <<>>],
    [limit |-> <<"1", ".", "5", "0">>, whitelist |-> <<AccountIdOf(1, KeySequence)>>,
     blacklist |-> <<AccountIdOf(2, KeySequence)>>],
    [limit |-> <<"-", "1">>, whitelist |-> <<>>, blacklist |-> <<>>],
    [limit |-> <<"x">>, whitelist |-> <<>>, blacklist |-> <<>>] }

\* An account whose id is derived with another key sequence than its keys
NewAccount_otherKeySequence(seed, txSpendLimit, whitelist, blacklist) ==
  [account_id |-> AccountIdOf(seed, KeySequence + 1),
   public_key |-> PublicKeyOf(seed, KeySequence),
   private_key |-> PrivateKeyOf(seed, KeySequence),
   secret |-> SecretOf(seed),
   tx_spend_limit |-> DecimalString(txSpendLimit),
   whitelist |-> whitelist, blacklist |-> blacklist]

\* The Account pathCreateAccount derives from the seed and the request
NewAccount(seed, txSpendLimit, whitelist, blacklist) ==
  [account_id |-> AccountIdOf(seed, KeySequence),
   public_key |-> PublicKeyOf(seed, KeySequence),
   private_key |-> PrivateKeyOf(seed, KeySequence),
   secret |-> SecretOf(seed),
   tx_spend_limit |-> DecimalString(txSpendLimit),
   whitelist |-> whitelist, blacklist |-> blacklist]

\* pathCreateAccount, up to the call of fundTestAccount
CreateStart(p) ==
  /\ CanStart(p)
  /\ nreq' = nreq + 1
  /\ \E name \in Names, in \in CreateInputs, randOk \in BOOLEAN, seed \in Seeds :
       LET txSpendLimit == NewFromString(in.limit)
           r == [NoReq EXCEPT !.kind = "create", !.name = name]
       IN  IF ~txSpendLimit.ok \/ IsNegative(txSpendLimit)
             THEN Finish(p, r, ErrResp("tx_spend_limit is either not a number or is negative"))
           ELSE IF ~randOk THEN Finish(p, r, ErrResp("entropy"))
           ELSE /\ pc' = [pc EXCEPT ![p] = "faucet"]
                /\ req' = [req EXCEPT ![p] =
                     [r EXCEPT !.newAcct = NewAccount(seed, txSpendLimit, in.whitelist, in.blacklist)]]
  /\ UNCHANGED <<storage, ledger, alive, log, returned, lastSubmit, pol>>

\* The replies of the faucet: an account, an account whose secret has a
\* payload of another length, a body that is not the expected JSON
FaucetReplies == {"account", "short secret", "no account"}

\* generateTestFaucetAccount: the account the faucet's reply decodes to; a
\* reply that is not the expected JSON leaves both strings empty
generateTestFaucetAccount(reply) ==
  IF reply = "account"
  THEN [NoAccount EXCEPT !.account_id = AccountIdOf(FaucetSeed, KeySequence),
                         !.secret = SecretOf(FaucetSeed)]
  ELSE IF reply = "short secret"
  THEN [NoAccount EXCEPT !.account_id = AccountIdOf(FaucetSeed, KeySequence),
                         !.secret = ShortSecretOf(FaucetSeed)]
  ELSE NoAccount

\* What generateTestFaucetAccount writes to the log
FaucetLog(faucetAccount) ==
  {<<"faucet address", faucetAccount.account_id>>, <<"faucet secret", faucetAccount.secret>>}

\* fundTestAccount, from the faucet call to the call of signPaymentTransaction
Faucet(p) ==
  /\ alive /\ pc[p] = "faucet"
  /\ \E httpOk \in BOOLEAN, reply \in FaucetReplies :
       LET faucetAccount == generateTestFaucetAccount(reply)
           payment == createPaymentTransaction(faucetAccount.account_id,
                        req[p].newAcct.account_id, [kind |-> "int", val |-> 1000],
                        "native", <<>>)
           enter == SignEnter(faucetAccount)
           err == IF payment.err # "" THEN payment.err ELSE enter.err
       IN  IF ~httpOk THEN Panic(p, req[p]) /\ UNCHANGED log
           ELSE /\ UNCHANGED alive
                /\ IF err # ""
                   THEN /\ Finish(p, req[p], ErrResp(err))
                        /\ log' = log \cup FaucetLog(faucetAccount)
                   ELSE /\ pc' = [pc EXCEPT ![p] = "connect"]
                        /\ req' = [req EXCEPT ![p].acct = faucetAccount,
                                              ![p].tx = payment.tx, ![p].key = enter.key]
                        /\ log' = log \cup FaucetLog(faucetAccount)
  /\ UNCHANGED <<storage, ledger, nreq, returned, lastSubmit, pol>>

\* The ledger applies a funding payment: a destination that is not on the
\* ledger yet is created with sequence 1
Fund(address) ==
  IF address \in Addresses /\ ledger[address] = 0
  THEN [ledger EXCEPT ![address] = 1]
  ELSE ledger

\* fundTestAccount: websockets.NewRemote and remote.Submit(signedTx). The
\* engine result is logged and not looked at.
FundSubmit(p) ==
  /\ alive /\ pc[p] = "fund_connect"
  /\ \E outcome \in {"connect failed", "submit failed", "tesSUCCESS", "tefFAILURE"} :
       IF outcome \in {"connect failed", "submit failed"}
       THEN /\ Finish(p, req[p], ErrResp(outcome))
            /\ UNCHANGED ledger
       ELSE /\ pc' = [pc EXCEPT ![p] = "put"]
            /\ UNCHANGED req
            /\ ledger' = IF outcome = "tesSUCCESS" THEN Fund(req[p].tx.destination) ELSE ledger
  /\ UNCHANGED <<storage, nreq, alive, log, returned, lastSubmit, pol>>

\* An account response that also carries the private key
AccountResponse_withPrivateKey(account) ==
  [status |-> "ok", err |-> "",
   data |-> [accountId |-> account.account_id, publicKey |-> account.public_key,
             privateKey |-> account.private_key,
             txSpendLimit |-> account.tx_spend_limit,
             whitelist |-> account.whitelist, blacklist |-> account.blacklist]]

\* The response of pathCreateAccount and of pathReadAccount
AccountResponse(account) ==
  [status |-> "ok", err |-> "",
   data |-> [accountId |-> account.account_id, publicKey |-> account.public_key,
             txSpendLimit |-> account.tx_spend_limit,
             whitelist |-> account.whitelist, blacklist |-> account.blacklist]]

\* An encoding that leaves the blacklist out
StorageEntryJSON_withoutBlacklist(account) ==
  << <<"account_id", account.account_id>>, <<"public_key", account.public_key>>,
     <<"private_key", account.private_key>>, <<"secret", account.secret>>,
     <<"tx_spend_limit", account.tx_spend_limit>>, <<"whitelist", account.whitelist>> >>

\* logical.StorageEntryJSON(req.Path, accountJSON): the fields of the Account
\* under their json tags
StorageEntryJSON(account) ==
  << <<"account_id", account.account_id>>, <<"public_key", account.public_key>>,
     <<"private_key", account.private_key>>, <<"secret", account.secret>>,
     <<"tx_spend_limit", account.tx_spend_limit>>, <<"whitelist", account.whitelist>>,
     <<"blacklist", account.blacklist>> >>

\* The value an entry holds under a tag, the zero value if it has none
JsonValue(entry, tag) ==
  IF \E i \in 1..Len(entry) : entry[i][1] = tag
  THEN entry[CHOOSE i \in 1..Len(entry) : entry[i][1] = tag][2]
  ELSE <<>>

\* entry.DecodeJSON(&account)
DecodeJSON(entry) ==
  [account_id |-> JsonValue(entry, "account_id"),
   public_key |-> JsonValue(entry, "public_key"),
   private_key |-> JsonValue(entry, "private_key"),
   secret |-> JsonValue(entry, "secret"),
   tx_spend_limit |-> JsonValue(entry, "tx_spend_limit"),
   whitelist |-> JsonValue(entry, "whitelist"),
   blacklist |-> JsonValue(entry, "blacklist")]

\* pathCreateAccount: StorageEntryJSON, req.Storage.Put, the log line and the
\* response. storage holds an entry as the Account it decodes to.
StoreAccount(p) ==
  /\ alive /\ pc[p] = "put"
  /\ \E storageOk \in BOOLEAN :
       IF storageOk
       THEN /\ storage' = [storage EXCEPT ![req[p].name] =
                                DecodeJSON(StorageEntryJSON(req[p].newAcct))]
            /\ log' = log \cup {<<"created", req[p].newAcct.account_id>>}
            /\ Finish(p, req[p], AccountResponse(req[p].newAcct))
       ELSE /\ UNCHANGED <<storage, log>>
            /\ Finish(p, req[p], ErrResp("put failed"))
  /\ UNCHANGED <<ledger, nreq, alive, returned, lastSubmit, pol>>

\* A read that rewrites the entry it found, without the secret
pathReadAccount_scrubbing(p) ==
  /\ CanStart(p)
  /\ nreq' = nreq + 1
  /\ \E name \in Names, storageOk \in BOOLEAN :
       LET got == readVaultAccount(name, storageOk)
           r == [NoReq EXCEPT !.kind = "read", !.name = name]
       IN  IF got.err # "" THEN Panic(p, r) /\ UNCHANGED storage
           ELSE /\ UNCHANGED alive
                /\ IF got.account = NoAccount
                   THEN Finish(p, r, [NoResp EXCEPT !.status = "nil"]) /\ UNCHANGED storage
                   ELSE /\ Finish(p, r, AccountResponse(got.account))
                        /\ storage' = [storage EXCEPT ![name].secret = <<>>]
  /\ UNCHANGED <<ledger, log, returned, lastSubmit, pol>>

\* pathReadAccount: a storage error ends in log.Fatal, which exits the process
pathReadAccount(p) ==
  /\ CanStart(p)
  /\ nreq' = nreq + 1
  /\ \E name \in Names, storageOk \in BOOLEAN :
       LET got == readVaultAccount(name, storageOk)
           r == [NoReq EXCEPT !.kind = "read", !.name = name]
       IN  IF got.err # "" THEN Panic(p, r)
           ELSE /\ UNCHANGED alive
                /\ IF got.account = NoAccount
                   THEN Finish(p, r, [NoResp EXCEPT !.status = "nil"])
                   ELSE Finish(p, r, AccountResponse(got.account))
  /\ UNCHANGED <<storage, ledger, log, returned, lastSubmit, pol>>

\* pathListAccounts
pathListAccounts(p) ==
  /\ CanStart(p)
  /\ nreq' = nreq + 1
  /\ \E storageOk \in BOOLEAN :
       LET r == [NoReq EXCEPT !.kind = "list"]
       IN  IF storageOk
           THEN Finish(p, r, [status |-> "ok", err |-> "",
                              data |-> [keys |-> {n \in Names : storage[n] # NoAccount}]])
           ELSE Finish(p, r, ErrResp("list failed"))
  /\ UNCHANGED <<storage, ledger, alive, log, returned, lastSubmit, pol>>

\* -------------------------------------------------------------- caller
SignKinds == {"payment", "accountset", "trustline"}

HoldsSigned(p) ==
  pc[p] = "done" /\ req[p].kind \in SignKinds /\ req[p].resp.status = "ok"

\* submitSignedTransaction: the caller decodes the hex it was returned and
\* submits the transaction; the ledger applies it iff its sequence is the
\* account's next expected one.
CallerSubmit(p) ==
  /\ HoldsSigned(p)
  /\ LET read == ReadTransaction(HexDecode(req[p].resp.data.signed_transaction))
         expected == LedgerSequence(read.tx.account)
         applied == read.tx.sequence = expected
     IN  /\ read.ok
         /\ applied => expected < MaxSeq
         /\ ledger' = IF applied THEN [ledger EXCEPT ![read.tx.account] = expected + 1]
                      ELSE ledger
         /\ lastSubmit' = [account |-> read.tx.account, sequence |-> read.tx.sequence,
                           expected |-> expected]
  /\ pc' = [pc EXCEPT ![p] = "idle"]
  /\ req' = [req EXCEPT ![p] = NoReq]
  /\ UNCHANGED <<storage, nreq, alive, log, returned, pol>>

\* The caller takes a response and does nothing more with it
Release(p) ==
  /\ pc[p] = "done"
  /\ pc' = [pc EXCEPT ![p] = "idle"]
  /\ req' = [req EXCEPT ![p] = NoReq]
  /\ UNCHANGED <<storage, ledger, nreq, alive, log, returned, lastSubmit, pol>>

\* ------------------------------------------------------ specifications
Next ==
  \E p \in Procs :
    \/ CreateStart(p) \/ Faucet(p) \/ FundSubmit(p) \/ StoreAccount(p)
    \/ pathReadAccount(p) \/ pathListAccounts(p)
    \/ PaymentStart(p) \/ PaymentReadDest(p)
    \/ AccountSetStart(p) \/ TrustlineStart(p)
    \/ SignConnect(p) \/ SignFetch(p) \/ SignSign(p) \/ Encode(p)
    \/ CallerSubmit(p) \/ Release(p)

Spec == Init /\ [][Next]_vars

\* The policy function on its own: the inputs are drawn at the start, and
\* the one action applies validAccountConstraints to them.
Counterparties == {AccountIdOf(s, KeySequence) : s \in 1..3}

AddressLists ==
  { <<>> } \cup { <<a>> : a \in Counterparties }
  \cup { <<AccountIdOf(1, KeySequence), AccountIdOf(2, KeySequence)>> }

PolicyLimits ==
  { <<"0">>, <<"1">>, <<"1", "0", "0", "0">>, <<"1", ".", "5">> }

PolicyAmounts == {0, 1, 2, 999, 1000, 1001}

InitPolicy ==
  /\ storage = [n \in Names |-> NoAccount]
  /\ ledger = [a \in Addresses |-> 0]
  /\ pc = [p \in Procs |-> "idle"]
  /\ req = [p \in Procs |-> NoReq]
  /\ nreq = 0
  /\ alive = TRUE
  /\ log = {}
  /\ returned = [a \in Addresses |-> 0]
  /\ lastSubmit = NoSubmit
  /\ \E limit \in PolicyLimits, wl \in AddressLists, bl \in AddressLists,
        amount \in PolicyAmounts, to \in Counterparties :
       pol = [account |-> [NoAccount EXCEPT !.tx_spend_limit = limit,
                                            !.whitelist = wl, !.blacklist = bl],
              amount |-> amount, to |-> to, result |-> "none"]

Authorize ==
  /\ pol.result = "none"
  /\ pol' = [pol EXCEPT !.result =
               validAccountConstraints(pol.account, [kind |-> "int", val |-> pol.amount], pol.to)]
  /\ UNCHANGED <<storage, ledger, pc, req, nreq, alive, log, returned, lastSubmit>>

NextPolicy == Authorize

SpecPolicy == InitPolicy /\ [][NextPolicy]_vars

\* ------------------------------------------------------------ properties
\* The spend limit of an account is written as an integer
IntegerLimit(account) == AllDigits(account.tx_spend_limit)

\* The spend limit of an account as the decimal pathCreateAccount stored
StoredLimit(account) == NewFromString(account.tx_spend_limit)
LimitOf(account) == StoredLimit(account).int

\* The spend limit is positive and the (integer) amount is larger than it
AboveLimit(account, amount) ==
  LET limit == StoredLimit(account)
  IN  (limit.int > 0 \/ limit.frac # <<>>) /\ amount > limit.int

\* The request exceeds the positive spend limit of its source account
ExceedsLimit(r) ==
  /\ r.kind = "payment" /\ r.amount.kind = "int" /\ r.acct # NoAccount
  /\ AboveLimit(r.acct, r.amount.val)

\* A sign request has fetched its sequence and has not finished signing
InFetchSign(p) == req[p].kind \in SignKinds /\ pc[p] = "sign"

\* A sign request holds the sequence it fetched and has not returned yet
HoldsSequence(p) == req[p].kind \in SignKinds /\ pc[p] \in {"sign", "encode"}

\* C1: two sign requests of one account that are in progress at the same
\* time hold different sequences, so that the sequences returned to
\* concurrent requests are pairwise distinct (and can increase in the order
\* the requests complete).
C1_ConcurrentSequencesDistinct ==
  \A p, q \in Procs :
    (p # q /\ HoldsSequence(p) /\ HoldsSequence(q)
       /\ req[p].tx.account = req[q].tx.account)
      => req[p].tx.sequence # req[q].tx.sequence

\* C2: no two requests for the same account are both between their sequence
\* fetch and the completion of their signing.
C2_OneRequestPerAccountInFetchSign ==
  \A p, q \in Procs :
    (p # q /\ InFetchSign(p) /\ InFetchSign(q))
      => req[p].acct.account_id # req[q].acct.account_id

\* C3: a signed transaction that is submitted carries the sequence the ledger
\* expects next for its account: no submission is stale.
C3_SubmittedSequenceIsExpected ==
  lastSubmit # NoSubmit => lastSubmit.sequence = lastSubmit.expected

\* C4: a payment whose amount exceeds the positive spend limit of its source
\* account never gets to the network or to a signature, and never ends with a
\* successful response.
C4_AboveLimitIsRejected ==
  \A p \in Procs :
    ExceedsLimit(req[p])
      => pc[p] \notin {"connect", "fetch", "sign", "encode", "done"}

\* The errors of a payment that come from storage or from the network
EnvironmentErrors ==
  {"failed to read account", "destination account not found",
   "network unavailable", "account info failed"}

\* The response carries a signed transaction whose hex decodes to it
CarriesSigned(r) ==
  /\ r.resp.status = "ok"
  /\ "signed_transaction" \in DOMAIN r.resp.data
  /\ LET read == ReadTransaction(HexDecode(r.resp.data.signed_transaction))
     IN  /\ read.ok
         /\ read.tx.type = "Payment"
         /\ read.tx.account = r.acct.account_id
         /\ read.tx.amount[1] = r.amount.val
         /\ read.tx.txnSignature # <<>>

\* The asset of the request is one data.NewAmount accepts
WellFormedAsset(r) ==
  IsNative(r.assetCode) \/ (r.assetCode \in {"USD", "SRC"} /\ ValidAddress(r.assetIssuer))

InList(list, x) == x \in {list[i] : i \in 1..Len(list)}

PolicyDone == pol.result # "none"

\* C6: with empty lists, validAccountConstraints denies exactly when the
\* spend limit is positive and the amount is larger than it; everything else
\* (an amount equal to the limit, any amount under limit 0) is allowed.
C6_LimitRule ==
  (PolicyDone /\ pol.account.whitelist = <<>> /\ pol.account.blacklist = <<>>)
    => pol.result =
         IF AboveLimit(pol.account, pol.amount) THEN "deny_limit" ELSE "allow"

\* C7: a counterparty on the blacklist is denied for every amount, every
\* spend limit an account can be stored with, and every whitelist.
C7_BlacklistRule ==
  (PolicyDone /\ InList(pol.account.blacklist, pol.to))
    => pol.result \in {"deny_limit", "deny_blacklist"}

\* C8: with the amount within the limit and the counterparty not on the
\* blacklist, validAccountConstraints denies iff the whitelist is non-empty
\* and does not hold the counterparty, and allows otherwise.
C8_WhitelistRule ==
  (/\ PolicyDone
   /\ ~AboveLimit(pol.account, pol.amount)
   /\ ~InList(pol.account.blacklist, pol.to))
    => pol.result =
         IF pol.account.whitelist # <<>> /\ ~InList(pol.account.whitelist, pol.to)
         THEN "deny_whitelist" ELSE "allow"

\* The three rules hold of every account whose spend limit is an integer
RulesForIntegerLimits ==
  IntegerLimit(pol.account)
    => (/\ pol.account.whitelist = <<>> /\ pol.account.blacklist = <<>>
          => pol.result \in {"none", IF AboveLimit(pol.account, pol.amount)
                                      THEN "deny_limit" ELSE "allow"}
        /\ InList(pol.account.blacklist, pol.to)
          => pol.result \in {"none", "deny_limit", "deny_blacklist"}
        /\ (~AboveLimit(pol.account, pol.amount)
            /\ ~InList(pol.account.blacklist, pol.to))
          => pol.result \in {"none",
                IF pol.account.whitelist # <<>>
                   /\ ~InList(pol.account.whitelist, pol.to)
                THEN "deny_whitelist" ELSE "allow"})

\* The private keys and secrets of the custodied accounts and of the faucet
KeyMaterial ==
  UNION { {PrivateKeyOf(s, KeySequence), SecretOf(s), ShortSecretOf(s)} :
          s \in Seeds \cup {FaucetSeed} }

\* The fields of a response that hold account or transaction data as text
TextFields(data) == DOMAIN data \ {"account_sequence", "keys"}

\* C9: no field of any response is a private key or a secret.
C9_NoKeyMaterialInResponses ==
  \A p \in Procs : \A f \in TextFields(req[p].resp.data) :
    req[p].resp.data[f] \notin KeyMaterial

C9_Witness ==
  \E p \in Procs :
    /\ pc[p] = "done" /\ req[p].kind = "read" /\ req[p].resp.status = "ok"
    /\ storage[req[p].name].private_key \in KeyMaterial
    /\ req[p].resp.data.accountId = storage[req[p].name].account_id

\* The keys and the id of an account are those its secret derives
DerivedFromSecret(account) ==
  LET seed == SeedOfSecret(account.secret)
  IN  /\ seed # 0
      /\ account.account_id = AccountIdOf(seed, KeySequence)
      /\ account.public_key = PublicKeyOf(seed, KeySequence)
      /\ account.private_key = PrivateKeyOf(seed, KeySequence)

\* C10: the account id stored under a name never changes once it is there.
C10_AccountIdNeverChanges ==
  [][\A n \in Names :
       storage[n] # NoAccount => storage'[n].account_id = storage[n].account_id]_vars

\* C11: every account in storage has the account id, public key and private
\* key that its own stored secret derives with key sequence 0.
C11_StoredKeysDeriveFromSecret ==
  \A n \in Names : storage[n] # NoAccount => DerivedFromSecret(storage[n])

C11_Witness ==
  /\ \A n \in Names : storage[n] # NoAccount /\ DerivedFromSecret(storage[n])
  /\ storage["a"].secret # storage["b"].secret

\* The sequence of the transaction a response carries, read from its hex
DecodedSequence(resp) ==
  ReadTransaction(HexDecode(resp.data.signed_transaction)).tx.sequence

\* C12: the sequence of a signed transaction is the value the ledger
\* reported for the source address in the fetch of the same request: the
\* fetch assigns it, signing keeps it, and the response carries it.
C12_SequenceIsTheFetchedValue ==
  [][\A p \in Procs :
       /\ (pc[p] = "fetch" /\ pc'[p] = "sign")
            => /\ req'[p].tx.sequence = LedgerSequence(req[p].acct.account_id)
               /\ req'[p].fetched = req'[p].tx.sequence
       /\ (pc[p] = "sign" /\ pc'[p] = "encode")
            => req'[p].tx.sequence = req[p].tx.sequence
       /\ (pc[p] = "encode" /\ pc'[p] = "done")
            => /\ req'[p].resp.data.account_sequence = req[p].tx.sequence
               /\ DecodedSequence(req'[p].resp) = req[p].tx.sequence
               /\ req[p].tx.sequence = req[p].fetched]_vars

C12_Witness ==
  \E p \in Procs :
    /\ HoldsSigned(p) /\ req[p].fetched = 2
    /\ req[p].resp.data.account_sequence = 2 /\ DecodedSequence(req[p].resp) = 2

\* The request has ended with a network error, unsigned and without data
FailedOnNetwork(r) ==
  /\ r.resp.status = "error"
  /\ r.resp.err \in {"network unavailable", "account info failed"}
  /\ r.resp.data = <<>>
  /\ r.tx.txnSignature = <<>>

\* C13: a request waiting for the connection or for the sequence has fetched
\* nothing and signed nothing; when the connection or the fetch fails (as the
\* fetch does for an address the ledger does not know) the request ends
\* with an error, unsigned and without signed_transaction, and it fetches
\* at most once.
C13_NetworkFailureEndsTheRequest ==
  [][\A p \in Procs :
       /\ pc[p] \in {"connect", "fetch"}
            => req[p].tx.txnSignature = <<>> /\ req[p].fetched = 0
       /\ (pc[p] = "connect" /\ pc'[p] # "connect")
            => \/ pc'[p] = "fetch" /\ req'[p] = req[p]
               \/ pc'[p] = "done" /\ FailedOnNetwork(req'[p])
       /\ (pc[p] = "fetch" /\ pc'[p] # "fetch")
            => \/ /\ pc'[p] = "sign"
                  /\ LedgerSequence(req[p].acct.account_id) # 0
                  /\ req'[p].fetched = LedgerSequence(req[p].acct.account_id)
               \/ pc'[p] = "done" /\ FailedOnNetwork(req'[p])]_vars

C13_Witness ==
  \E p \in Procs :
    /\ pc[p] = "done" /\ req[p].kind \in SignKinds
    /\ FailedOnNetwork(req[p]) /\ req[p].resp.err = "account info failed"

\* NewECDSAKey returns an error for the secret of the account
DerivationFails(account) ==
  LET seed == NewRippleHashCheck(account.secret)
  IN  seed.ok /\ NewECDSAKey(seed.payload).err # ""

\* C14: a request that signs for an account whose key derivation fails has
\* ended with an error: it is never found going on to the network or to the
\* signature with the account.
C14_KeyDerivationFailureIsAnError ==
  \A p \in Procs :
    DerivationFails(req[p].acct)
      => pc[p] \notin {"connect", "fetch", "sign", "fund_connect", "encode", "put"}

\* C15: when a sign request has ended, with a response or an error, the key
\* it derived has been zeroed.
C15_KeyIsZeroedAtTheEnd ==
  \A p \in Procs :
    (req[p].kind \in SignKinds /\ pc[p] \in {"done", "panicked"}) => req[p].key = 0

\* C16: no line of the log holds a private key or a secret, of a custodied
\* account or of the faucet account.
C16_NoKeyMaterialInLog ==
  \A line \in log : line[2] \notin KeyMaterial

\* The transaction a response carries, read from its hex
DecodedTransaction(resp) == ReadTransaction(HexDecode(resp.data.signed_transaction)).tx

\* C17: every transaction the service builds carries the fee of 10 drops,
\* whatever the request, and the fee of a response (the field and the encoded
\* transaction) is that fee.
C17_FeeIsTenDrops ==
  /\ FeeDrops = 10
  /\ \A p \in Procs :
       /\ req[p].tx.type # "none" => req[p].tx.fee = 10
       /\ HoldsSigned(p)
            => /\ req[p].resp.data.fee = <<"1", "0">>
               /\ DecodedTransaction(req[p].resp).fee = 10

C17_Witness ==
  \E p \in Procs :
    /\ HoldsSigned(p) /\ req[p].kind = "payment" /\ req[p].amount.val = 1001
    /\ req[p].resp.data.fee = <<"1", "0">>

\* C18: the steps of a sign request happen in the order build, sequence
\* fetch, sign, encode. Until the fetch the built transaction has sequence 0
\* and no signature; the signature is computed over the assigned sequence;
\* only a request that went through every step ends with signed_transaction,
\* and a request that ends in an error carries no signed transaction.
C18_StepsInOrder ==
  \A p \in Procs :
    LET r == req[p]
    IN  /\ pc[p] \in {"connect", "fetch"}
             => /\ r.tx.type # "none" /\ r.tx.sequence = 0
                /\ r.tx.txnSignature = <<>> /\ r.resp = NoResp
        /\ pc[p] = "sign"
             => r.tx.sequence # 0 /\ r.tx.txnSignature = <<>> /\ r.resp = NoResp
        /\ pc[p] = "encode"
             => /\ r.tx.sequence # 0 /\ r.tx.txnSignature # <<>> /\ r.resp = NoResp
                /\ r.tx.txnSignature[3] = SigningFields(r.tx)
        /\ (pc[p] = "done" /\ r.kind \in SignKinds)
             => IF r.resp.status = "ok"
                THEN /\ "signed_transaction" \in DOMAIN r.resp.data
                     /\ DecodedTransaction(r.resp) = r.tx
                     /\ r.tx.sequence # 0 /\ r.tx.sequence = r.fetched
                     /\ r.tx.txnSignature # <<>>
                ELSE r.resp.data = <<>> /\ r.tx.txnSignature = <<>>

C18_Witness ==
  \E p \in Procs :
    /\ HoldsSigned(p) /\ req[p].kind = "accountset"
    /\ DecodedTransaction(req[p].resp) = req[p].tx /\ req[p].tx.sequence = 1

\* Slot q takes a step of the handler of a sign request (not of its caller)
SignStepOf(q) ==
  /\ pc'[q] # pc[q] /\ pc[q] # "done"
  /\ req[q].kind \in SignKinds \/ req'[q].kind \in SignKinds

\* The account name of the request that takes the step
NameOfStep(q) == IF pc[q] = "idle" THEN req'[q].name ELSE req[q].name

\* C19: no step of a sign request submits anything: the ledger is the same
\* before and after it. The ledger changes only by the funding submission of
\* an account creation and by the submissions of the caller.
C19_SignRequestsNeverSubmit ==
  [][/\ \A q \in Procs :
          SignStepOf(q) => ledger' = ledger /\ lastSubmit' = lastSubmit
     /\ ledger' # ledger
          => \E p \in Procs :
               \/ req[p].kind = "create" /\ pc[p] = "fund_connect" /\ pc'[p] = "put"
               \/ HoldsSigned(p) /\ pc'[p] = "idle"]_vars

C19_Witness ==
  \E p \in Procs :
    /\ HoldsSigned(p) /\ req[p].kind = "payment"
    /\ ledger[req[p].tx.account] = req[p].tx.sequence
    /\ lastSubmit = NoSubmit

\* A sign request is in progress in slot p
SignInProgress(p) ==
  req[p].kind \in SignKinds /\ pc[p] \in {"pay_dest", "connect", "fetch", "sign", "encode"}

\* C20: a step of a sign request for another account leaves a sign request
\* in progress as it was and able to go on: the process lives, the request
\* and its position are unchanged, and the ledger is unchanged.
C20_OtherAccountsDoNotInterfere ==
  [][\A p, q \in Procs :
       (/\ p # q /\ SignInProgress(p) /\ SignStepOf(q)
        /\ NameOfStep(q) \notin {"", req[p].name})
         => /\ alive'
            /\ req'[p] = req[p] /\ pc'[p] = pc[p]
            /\ ledger' = ledger]_vars

\* The same, for the steps that do not end the process
NoInterferenceWhileAlive ==
  [][\A p, q \in Procs :
       (/\ p # q /\ SignInProgress(p) /\ SignStepOf(q)
        /\ NameOfStep(q) \notin {"", req[p].name} /\ alive')
         => /\ req'[p] = req[p] /\ pc'[p] = pc[p]
            /\ ledger' = ledger]_vars

\* ------------------------------------------------- errors of a payment
\* A payment request whose fields pass every check createPayment makes
\* before it reads the accounts
PassesFieldChecks(r) ==
  /\ ~r.unknownField /\ r.name # "" /\ r.dest # "" /\ r.amountStr # <<>>
  /\ validNumber(r.amountStr).kind # "panic"
  /\ r.assetCode # "" /\ (r.assetIssuer = <<>> => IsNative(r.assetCode))

\* The request ended with this error, with no transaction, no key and no
\* fetched sequence
EndedWith(p, errs) ==
  /\ pc'[p] = "done" /\ req'[p].resp.status = "error" /\ req'[p].resp.err \in errs
  /\ req'[p].tx = NoTx /\ req'[p].key = 0 /\ req'[p].fetched = 0

\* C21: a payment whose fields pass the field checks and whose source, or
\* whose destination, has no entry in storage ends with the error "source
\* account not found", or "destination account not found" (or with the
\* error of a failed storage read), which is not the "invalid address" error
\* of a malformed address, in the step that reads the account: no
\* transaction is built, no network call is made and no key is derived.
C21_MissingAccountIsNotFound ==
  [][\A p \in Procs :
       /\ (/\ pc[p] = "idle" /\ req'[p].kind = "payment" /\ PassesFieldChecks(req'[p])
           /\ storage[req'[p].name] = NoAccount)
          => EndedWith(p, {"source account not found", "failed to read account"})
       /\ (/\ pc[p] = "pay_dest" /\ pc'[p] # "pay_dest"
           /\ storage[req[p].dest] = NoAccount)
          => EndedWith(p, {"destination account not found", "failed to read account"})]_vars

C21_Witness ==
  \E p \in Procs :
    /\ pc[p] = "done" /\ req[p].kind = "payment"
    /\ req[p].resp.err = "destination account not found"
    /\ storage[req[p].name] # NoAccount /\ storage[req[p].dest] = NoAccount

\* The amount string of a request starts with a minus sign
NegativeAmount(amountStr) == amountStr # <<>> /\ amountStr[1] = "-"

\* C22: a payment whose amount is negative is rejected: no transaction is
\* built for it and none comes back signed.
C22_NegativeAmountIsRejected ==
  \A p \in Procs :
    (req[p].kind = "payment" /\ NegativeAmount(req[p].amountStr))
      => /\ req[p].tx = NoTx
         /\ pc[p] \notin {"connect", "fetch", "sign", "encode"}
         /\ ~(pc[p] = "done" /\ req[p].resp.status = "ok")

\* An amount string that is not a decimal integer, signed or not
MalformedAmount(amountStr) ==
  /\ amountStr # <<>>
  /\ ~AllDigits(IF NegativeAmount(amountStr) THEN Tail(amountStr) ELSE amountStr)

\* C23: a payment whose amount is malformed ends with an error that is
\* returned: the request does not panic and no transaction is built for it.
C23_MalformedAmountIsAnError ==
  \A p \in Procs :
    (req[p].kind = "payment" /\ MalformedAmount(req[p].amountStr))
      => /\ pc[p] # "panicked"
         /\ req[p].tx = NoTx
         /\ pc[p] = "done" => req[p].resp.status \in {"error", "error_response"}

\* ---------------------------------------------- errors of a trust line
\* A trust-line request with a currency code and an empty issuer
EmptyIssuer(p) ==
  req[p].kind = "trustline" /\ req[p].assetCode # "" /\ req[p].assetIssuer = <<>>

\* C24 as stated: a trust-line request with an empty issuer ends with the
\* "invalid address" error.
C24_EmptyIssuerIsInvalidAddress ==
  \A p \in Procs :
    EmptyIssuer(p) => /\ pc[p] = "done"
                      /\ req[p].resp.status = "error"
                      /\ req[p].resp.err = "invalid address"

\* C24: a trust-line request with an empty issuer ends with the error
\* response "Missing required field 'issuer'", before the account is read:
\* no transaction is built, no sequence is fetched and nothing is signed.
C24_EmptyIssuerIsAMissingField ==
  \A p \in Procs :
    EmptyIssuer(p) => /\ pc[p] = "done"
                      /\ req[p].resp = UserErrResp("Missing required field 'issuer'")
                      /\ req[p].acct = NoAccount /\ req[p].tx = NoTx
                      /\ req[p].key = 0 /\ req[p].fetched = 0

C24_Witness ==
  \E p \in Procs : EmptyIssuer(p) /\ pc[p] = "done" /\ storage[req[p].name] # NoAccount

\* ------------------------------------------------------ stored accounts
\* C25: the spend limit of every stored account is a non-negative integer.
C25_StoredLimitIsAnInteger ==
  \A n \in Names :
    storage[n] # NoAccount
      => storage[n].tx_spend_limit # <<>> /\ AllDigits(storage[n].tx_spend_limit)

\* A create request ends with its response in this step
CreateSucceeds(p) ==
  /\ req[p].kind = "create" /\ pc[p] = "put"
  /\ pc'[p] = "done" /\ req'[p].resp.status = "ok"

\* C26: a read answers with the accountId, publicKey, spend limit, whitelist
\* and blacklist of the stored entry; the entry a create stores reads back as
\* the response of that create; and the entry of a name changes only where a
\* create of that name succeeds. A read so returns the response of the
\* latest successful create of the name.
C26_ReadReturnsWhatCreateStored ==
  [][/\ \A p \in Procs :
          (pc[p] = "idle" /\ req'[p].kind = "read" /\ req'[p].resp.status = "ok")
            => /\ storage[req'[p].name] # NoAccount
               /\ req'[p].resp = AccountResponse(storage[req'[p].name])
     /\ \A p \in Procs :
          CreateSucceeds(p)
            => /\ req'[p].resp = AccountResponse(storage'[req[p].name])
               /\ req'[p].resp = AccountResponse(req[p].newAcct)
     /\ \A n \in Names :
          storage'[n] # storage[n]
            => \E p \in Procs : CreateSucceeds(p) /\ req[p].name = n]_vars

C26_Witness ==
  \E p, q \in Procs :
    /\ pc[p] = "done" /\ req[p].kind = "create" /\ req[p].resp.status = "ok"
    /\ pc[q] = "done" /\ req[q].kind = "read" /\ req[q].name = req[p].name
    /\ req[q].resp = req[p].resp
    /\ req[q].resp.data.blacklist # <<>> /\ req[q].resp.data.whitelist # <<>>

\* C27: storage changes only in the step in which a create request stores
\* its account; no step of a payment, account-set, trust-line, read or list
\* request changes it.
C27_OnlyCreateWritesStorage ==
  [][/\ storage' # storage => \E p \in Procs : CreateSucceeds(p)
     /\ \A p \in Procs :
          (/\ req'[p].kind \in {"payment", "accountset", "trustline", "read", "list"}
           /\ <<pc[p], req[p]>> # <<pc'[p], req'[p]>>)
            => storage' = storage]_vars

C27_Witness ==
  /\ \E n \in Names : storage[n] # NoAccount
  /\ \E p \in Procs : /\ pc[p] = "done" /\ req[p].kind = "list"
                      /\ req[p].resp.status = "ok" /\ req[p].resp.data.keys # {}
  /\ \E p \in Procs : req[p].kind \in SignKinds /\ pc[p] = "encode"

\* The steps of a create request that fund the new account
FundingSteps == {"faucet", "connect", "fetch", "sign", "fund_connect"}

\* C28: a step of the funding of a create request goes on to the next step
\* or ends the request with an error that is returned, and leaves storage as
\* it is: the account is stored only after the funding payment was submitted.
C28_FundingFailureIsAnError ==
  [][\A p \in Procs :
       (req[p].kind = "create" /\ pc[p] \in FundingSteps /\ pc'[p] # pc[p])
         => /\ storage' = storage
            /\ \/ pc'[p] \in FundingSteps \cup {"put"}
               \/ pc'[p] = "done" /\ req'[p].resp.status = "error"]_vars

\* C29: the step of a create request that calls the faucet goes on or ends
\* with an error that is returned; it does not panic, and storage stays as
\* it is.
C29_FaucetFailureIsAnError ==
  [][\A p \in Procs :
       (pc[p] = "faucet" /\ pc'[p] # "faucet")
         => /\ pc'[p] # "panicked" /\ alive'
            /\ storage' = storage]_vars

\* C30: a read request ends with a response, whatever storage does, and the
\* service goes on.
C30_ReadFailureIsAnError ==
  [][\A p \in Procs :
       (pc[p] = "idle" /\ req'[p].kind = "read")
         => pc'[p] = "done" /\ alive']_vars

====
